---------------------------- MODULE Spec2Model ----------------------------
(***************************************************************************)
(* Model of the longitudinal local-DP mechanism (longitudinal.py) and of   *)
(* the harness that drives it (test.py, Instance).                         *)
(*                                                                         *)
(* Python sequences are 0-based; the sequences here are 1-based, so the    *)
(* code's dx[t] is dx[t + 1].  Python's None is the empty tuple << >>,     *)
(* which is falsy in Python exactly as None is.                            *)
(***************************************************************************)
EXTENDS Integers, Sequences, FiniteSets, TLC

\* Largest horizon length d that is explored.
MaxD == 3

\* Largest number of clients the harness runs.
NClients == 2

\* How many changes beyond its k a freely called client may count (a step
\* called again is counted again): the cap on the counter i.
MaxRepeat == 1

\* Largest number of reports in one batch handed directly to the server.
MaxBatch == 3

\* Largest horizon of a server whose map is drawn rather than collected.
MaxHorizon == 4

VARIABLES
    d,        \* horizon: len(dx) of every client, Server.d, Instance.d
    clients,  \* client id -> the Client object's fields
    obs,      \* client id -> observation of the client's calls (ghost)
    T,        \* Server.T: (level, index) -> running sum
    inst,     \* the Instance's own fields and its place in run()
    last      \* the last operation and what it returned (ghost)

vars == <<d, clients, obs, T, inst, last>>

None == << >>

-----------------------------------------------------------------------------
(* Arithmetic helpers *)

Abs(x) == IF x < 0 THEN -x ELSE x

RECURSIVE Pow2(_)
Pow2(n) == IF n <= 0 THEN 1 ELSE 2 * Pow2(n - 1)

\* floor(log2(n)) for n >= 1
RECURSIVE FloorLog2(_)
FloorLog2(n) == IF n <= 1 THEN 0 ELSE 1 + FloorLog2(n \div 2)

IsPow2(n) == Pow2(FloorLog2(n)) = n

\* ceil of the float np.log2(n) + 1: np.log2 is exact on powers of two and
\* strictly between two integers everywhere else.
CeilLog2Plus1(n) == IF IsPow2(n) THEN FloorLog2(n) + 1 ELSE FloorLog2(n) + 2

\* np.arange(stop, dtype=int) with a float stop holds ceil(stop) values, 0..ceil(stop)-1.
tree_depth_list(dd) == 0 .. (CeilLog2Plus1(dd) - 1)

\* The permutations of 1 .. n.
Perms(n) == {p \in [1 .. n -> 1 .. n] : \A i, j \in 1 .. n : p[i] = p[j] => i = j}

RECURSIVE Norm1(_)
Norm1(s) == IF s = << >> THEN 0 ELSE Abs(Head(s)) + Norm1(Tail(s))

\* All vectors over {-1,0,1} of length n.
DxSet(n) == [1 .. n -> {-1, 0, 1}]

-----------------------------------------------------------------------------
(* Client *)

\* __get_level: the levels h* may be drawn from.
get_level(choose_level, dd) == IF choose_level THEN tree_depth_list(dd) ELSE {0}

\* __setup, line 126: the change indices i* may be drawn from.
ChangeChoices(k) == IF k > 0 THEN 0 .. (k - 1) ELSE {0}

\* __setup after the two draws ic, hc have been made.
setup_keeps_c(cs, ic, hc) ==
    [cs EXCEPT !.ic = ic, !.hc = hc, !.i = 0, !.k = Norm1(cs.dx)]

setup(cs, ic, hc) ==
    [cs EXCEPT !.ic = ic, !.hc = hc, !.i = 0, !.c = 0, !.k = Norm1(cs.dx)]

\* Client.__init__ followed by reset(dx): the fields before the draws.
NewClient(dx, hide_zero, choose_level) ==
    [dx |-> dx, hide_zero |-> hide_zero, choose_level |-> choose_level,
     ic |-> 0, hc |-> 0, i |-> 0, c |-> 0, k |-> 0]

\* numpy indexing dx[t]: 0 when t is out of bounds (IndexError), else the
\* 1-based position; a negative t counts from the end.
DxIndex(dx, t) ==
    IF t >= Len(dx) \/ t < -Len(dx) THEN 0
    ELSE IF t < 0 THEN Len(dx) + t + 1 ELSE t + 1

\* update, lines 160-163: count the change, keep it if it is the i*-th.
SeeChange_takes_every(cs, v) ==
    IF v # 0 THEN [cs EXCEPT !.c = v, !.i = @ + 1] ELSE cs

SeeChange(cs, v) ==
    IF v # 0
    THEN [cs EXCEPT !.c = IF cs.i = cs.ic THEN v ELSE @, !.i = @ + 1]
    ELSE cs

\* update, line 166: a tree-level milestone.
Milestone_off(t, hc) == t % Pow2(hc) = 0

Milestone(t, hc) == (t + 1) % Pow2(hc) = 0

\* update, line 172: the captured change after a disclosure.
AfterDisclosure_keeps(c) == c

AfterDisclosure(c) == 0

\* update, line 167: the values u may be drawn from before c is looked at.
NoiseDraws(hide_zero) == IF hide_zero THEN {-1, 1} ELSE {0}

\* update, line 170: the least whole eps at which the float
\* p = e^(eps/2) / (1 + e^(eps/2)) is exactly 1.0 (e^37 exceeds 2^53).
CoinSureAt == 74

\* update, line 170: the values b = 2 * binomial(1, p) - 1 can take.  For
\* eps >= 74 the float p is 1.0 and b is always +1; below that both values
\* can be drawn (eps stays within the range where e^(eps/2) is finite and
\* p is not 0.0).
Coin_sure(eps) == {1}

Coin(eps) == IF eps >= CoinSureAt THEN {1} ELSE {-1, 1}

\* The budgets a caller hands to update: a small one and the eps = 100 of
\* test_naive_clients and test_honest_clients.
UpdateEps == {1, 100}

\* update(t, eps) with its two draws: r is line 167's u and b is the
\* randomized-response coin 2 * binomial(1, p) - 1 of line 170, one of Coin(eps).
update(cs, t, r, b) ==
    LET idx == DxIndex(cs.dx, t) IN
    IF idx = 0
    THEN [cs |-> cs, ret |-> None, branch |-> "IndexError"]
    ELSE
      LET cs1 == SeeChange(cs, cs.dx[idx]) IN
      IF Milestone(t, cs1.hc)
      THEN IF cs1.c # 0
           THEN [cs |-> [cs1 EXCEPT !.c = AfterDisclosure(@)],
                 ret |-> <<cs1.hc, t, b * cs1.c>>, branch |-> "disclose"]
           ELSE [cs |-> cs1,
                 ret |-> <<cs1.hc, t, r>>,
                 branch |-> IF cs1.hide_zero THEN "noise" ELSE "zero"]
      ELSE [cs |-> cs1, ret |-> None, branch |-> "none"]

\* What a lifecycle has shown so far: seq is the number of calls when they
\* were exactly update(0), update(1), ... and -1 otherwise; nrep counts the
\* reports of such an in-order run; ndisc counts the reports computed from c;
\* where keep is set, trace holds for each call of such an in-order run its
\* eps, the hide_zero it was made under and what it returned, and prev tells
\* what the lifecycle before this one had done when reset ended it.
NewObs == [seq |-> 0, nrep |-> 0, ndisc |-> 0, keep |-> FALSE,
           trace |-> << >>, prev |-> "none"]

Observe(o, t, eps, hz, res) ==
    LET inorder == o.seq = t /\ res.branch # "IndexError" IN
    [seq   |-> IF inorder THEN t + 1 ELSE -1,
     nrep  |-> IF inorder THEN o.nrep + (IF res.ret # None THEN 1 ELSE 0) ELSE 0,
     ndisc |-> o.ndisc + (IF res.branch = "disclose" THEN 1 ELSE 0),
     keep  |-> o.keep,
     trace |-> IF inorder /\ o.keep
               THEN Append(o.trace, [eps |-> eps, hz |-> hz, ret |-> res.ret])
               ELSE << >>,
     prev  |-> o.prev]

\* The observation of the lifecycle that reset starts on a client cs.
Restart(o, cs) ==
    [NewObs EXCEPT !.keep = o.keep,
                   !.prev = IF ~o.keep THEN "none"
                            ELSE IF cs.c # 0 THEN "captured"
                            ELSE IF o.ndisc > 0 THEN "disclosed" ELSE "idle"]

-----------------------------------------------------------------------------
(* One client, called freely *)

\* No Instance: a client or a server used on its own.
NoInstance == [n |-> 0, k |-> 0, epsilon |-> 0, hide_zero |-> FALSE,
               choose_level |-> FALSE, pc |-> "none", t |-> 0]

\* The last call: its client, its argument t, what it returned, the branch of
\* update it took, hide_zero when it was made and the coin b it tossed (0: none);
\* for collect the map before the call and the batch; for aggregate its
\* arguments and its result; n counts the calls of collect so far.
NoCall == [op |-> "init", cl |-> 0, t |-> 0, ret |-> None, branch |-> "none",
           hz |-> FALSE, coin |-> 0, T0 |-> << >>, batch |-> << >>,
           k |-> 0, eps |-> 0, f |-> << >>, n |-> 0]

Called(cl, t, cs, b, res) ==
    [op |-> "update", cl |-> cl, t |-> t, ret |-> res.ret, branch |-> res.branch,
     hz |-> cs.hide_zero, coin |-> IF res.branch = "disclose" THEN b ELSE 0,
     T0 |-> << >>, batch |-> << >>, k |-> 0, eps |-> 0, f |-> << >>, n |-> last.n]

\* A client just constructed, watched as o tells.
Created(o) ==
    /\ d \in 1 .. MaxD
    /\ \E dx \in DxSet(d), hz \in BOOLEAN, chl \in BOOLEAN :
         LET cs == NewClient(dx, hz, chl) IN
         \E ic \in ChangeChoices(Norm1(dx)), hc \in get_level(chl, d) :
            clients = (1 :> setup(cs, ic, hc))
    /\ obs = (1 :> o)
    /\ T = << >>
    /\ inst = NoInstance
    /\ last = NoCall

InitClient == Created(NewObs)

\* client.update(t, eps) for any t of steps, in any order and as often as the
\* cap on the counter i allows.
UpdateAt(cl, steps) ==
    /\ clients[cl].i < clients[cl].k + MaxRepeat
    /\ \E t \in steps, eps \in UpdateEps,
          r \in NoiseDraws(clients[cl].hide_zero) :
         \E b \in Coin(eps) :
           LET res == update(clients[cl], t, r, b) IN
           /\ clients' = [clients EXCEPT ![cl] = res.cs]
           /\ obs' = [obs EXCEPT ![cl] =
                         Observe(@, t, eps, clients[cl].hide_zero, res)]
           /\ last' = Called(cl, t, clients[cl], b, res)
    /\ UNCHANGED <<d, T, inst>>

\* client.update(t, eps) for any t of the horizon.
Update(cl) == UpdateAt(cl, 0 .. (d - 1))

\* client.reset(): a new lifecycle on the same secret (a reset right after a
\* reset only draws again).
Reset(cl) ==
    /\ last.op # "reset"
    /\ \E ic \in ChangeChoices(Norm1(clients[cl].dx)),
          hc \in get_level(clients[cl].choose_level, d) :
         clients' = [clients EXCEPT ![cl] = setup(@, ic, hc)]
    /\ obs' = [obs EXCEPT ![cl] = Restart(@, clients[cl])]
    /\ last' = [NoCall EXCEPT !.op = "reset", !.cl = cl, !.n = last.n]
    /\ UNCHANGED <<d, T, inst>>

\* client.hide_zero(flag); a call with the flag's present value changes nothing.
HideZero(cl) ==
    /\ \E flag \in BOOLEAN :
         /\ flag # clients[cl].hide_zero
         /\ clients' = [clients EXCEPT ![cl].hide_zero = flag]
    /\ UNCHANGED <<d, obs, T, inst, last>>

\* set_choose_level written to draw the level again under the new flag.
SetChooseLevel_resamples(cl) ==
    /\ \E flag \in BOOLEAN :
         /\ flag # clients[cl].choose_level
         /\ \E hc \in get_level(flag, d) :
              clients' = [clients EXCEPT ![cl].choose_level = flag, ![cl].hc = hc]
    /\ UNCHANGED <<d, obs, T, inst, last>>

\* client.set_choose_level(flag)
SetChooseLevel(cl) ==
    /\ \E flag \in BOOLEAN :
         /\ flag # clients[cl].choose_level
         /\ clients' = [clients EXCEPT ![cl].choose_level = flag]
    /\ UNCHANGED <<d, obs, T, inst, last>>

NextClient ==
    \/ Update(1)
    \/ Reset(1)
    \/ HideZero(1)
    \/ SetChooseLevel(1)

SpecClient == InitClient /\ [][NextClient]_vars

\* One client called with any integer t from one below -d to d, the first
\* index past the end of dx.
AnyStep(cl) == UpdateAt(cl, (-(d + 1)) .. d)

NextAnyStep ==
    \/ AnyStep(1)
    \/ Reset(1)

SpecAnyStep == InitClient /\ [][NextAnyStep]_vars

\* One client driven as the class describes, for t in range(d):
\* client.update(t, eps), with a reset at any time; the trace is kept.
InitStream == Created([NewObs EXCEPT !.keep = TRUE])

NextStep(cl) == UpdateAt(cl, {obs[cl].seq} \cap (0 .. (d - 1)))

NextStream ==
    \/ NextStep(1)
    \/ Reset(1)

SpecStream == InitStream /\ [][NextStream]_vars

-----------------------------------------------------------------------------
(* Server *)

\* int(x / y) for y > 0: float division, then truncation toward zero.
IntDiv(x, y) == IF x >= 0 THEN x \div y ELSE -((-x) \div y)

\* collect, line 212: the node a report (h, t, u) is added to.
NodeKey_level_only(h, t) == <<h + 1, t + 1>>

NodeKey_next(h, t) == <<h + 1, IntDiv(t + 1, Pow2(h)) + 1>>

NodeKey(h, t) == <<h + 1, IntDiv(t + 1, Pow2(h))>>

\* collect, lines 213-215: T[key] += u, the entry starting at 0.
Accumulate_overwrites(Tm, key, u) ==
    IF key \in DOMAIN Tm THEN [Tm EXCEPT ![key] = u] ELSE Tm @@ (key :> u)

Accumulate(Tm, key, u) ==
    LET T1 == IF key \in DOMAIN Tm THEN Tm ELSE Tm @@ (key :> 0)
    IN  [T1 EXCEPT ![key] = @ + u]

\* collect, lines 211-215: one entry of the batch; None is skipped.
AddReport_by_time(Tm, report) ==
    IF report = None THEN Tm
    ELSE Accumulate(Tm, <<report[1] + 1, report[2]>>, report[3])

AddReport(Tm, report) ==
    IF report = None THEN Tm
    ELSE Accumulate(Tm, NodeKey(report[1], report[2]), report[3])

\* collect(t, reports): the batch in the order given.
RECURSIVE collect(_, _)
collect(Tm, reports) ==
    IF reports = << >> THEN Tm
    ELSE collect(AddReport(Tm, Head(reports)), Tail(reports))

\* aggregate, line 227: a = k * log2(d) * (e^(eps/2) + 1) / (e^(eps/2) - 1) is
\* a float; it is kept as its arguments and the kind of float they give.
\* k * log2(d) is 0 when k = 0 or d = 1; e^(eps/2) - 1 has the sign of eps, and
\* dividing by the float 0.0 gives inf, or nan when the dividend is 0.
ScaleFactor(k, dd, eps) ==
    LET zero == (k = 0 \/ dd = 1) IN
    [k |-> k, d |-> dd, eps |-> eps,
     kind |-> IF eps = 0 THEN (IF zero THEN "nan" ELSE "inf")
              ELSE IF zero THEN "zero"
              ELSE IF eps > 0 THEN "pos" ELSE "neg"]

\* aggregate, line 245: the product a * sum, kept as its two factors.
Estimate(a, sum) == [a |-> a, sum |-> sum]

\* aggregate, line 232: the leaves up to t.
Leaves_short(t) == {<<1, i + 1>> : i \in 0 .. (t - 1)}

Leaves(t) == {<<1, i + 1>> : i \in 0 .. t}

\* aggregate, lines 236-243: one step of the fold, at level h and index i.
FoldStep_keeps_right(C, Tm, h, i) ==
    LET key1 == <<h + 1, i + 1>>
        key2 == <<h + 1, i + 2>>
        key3 == <<h + 2, IntDiv(i + 2, 2)>>
    IN  IF i % 2 = 0 /\ key1 \in C /\ key2 \in C /\ key3 \in DOMAIN Tm
        THEN (C \ {key1}) \cup {key3}
        ELSE C

FoldStep(C, Tm, h, i) ==
    LET key1 == <<h + 1, i + 1>>
        key2 == <<h + 1, i + 2>>
        key3 == <<h + 2, IntDiv(i + 2, 2)>>
    IN  IF i % 2 = 0 /\ key1 \in C /\ key2 \in C /\ key3 \in DOMAIN Tm
        THEN (C \ {key1, key2}) \cup {key3}
        ELSE C

\* aggregate, line 234: for i in range(d).
RECURSIVE FoldRow(_, _, _, _, _)
FoldRow(C, Tm, h, i, dd) ==
    IF i >= dd THEN C ELSE FoldRow(FoldStep(C, Tm, h, i), Tm, h, i + 1, dd)

\* aggregate, line 233: for h in tree_depth_list(d), from level h on.
RECURSIVE FoldLevels(_, _, _, _)
FoldLevels(C, Tm, h, dd) ==
    IF h \notin tree_depth_list(dd) THEN C
    ELSE FoldLevels(FoldRow(C, Tm, h, 0, dd), Tm, h + 1, dd)

\* The set C that aggregate ends with for time period t.
Cover(Tm, dd, t) == FoldLevels(Leaves(t), Tm, 0, dd)

RECURSIVE SetSum(_, _)
SetSum(S, Tm) ==
    IF S = {} THEN 0
    ELSE LET x == CHOOSE y \in S : TRUE IN Tm[x] + SetSum(S \ {x}, Tm)

\* aggregate, line 245: the sum over the nodes of C that T holds.
CoverSum(C, Tm) == SetSum(C \cap DOMAIN Tm, Tm)

\* aggregate, line 230: for t in range(d).
TimeSteps(dd) == 0 .. (dd - 1)

\* aggregate(k, eps): the list f, f[t] at position t + 1.
aggregate(Tm, dd, k, eps) ==
    [n \in {t + 1 : t \in TimeSteps(dd)} |->
        Estimate(ScaleFactor(k, dd, eps), CoverSum(Cover(Tm, dd, n - 1), Tm))]

-----------------------------------------------------------------------------
(* The server alone *)

\* The nodes of the tree over a horizon dd.
TreeNodes(dd) ==
    {key \in (1 .. (FloorLog2(dd) + 1)) \X (1 .. dd) :
        key[2] <= dd \div Pow2(key[1] - 1)}

\* The reports of one time period t a caller may hand to collect.
ReportsAt(dd, t) ==
    {<<h, t, u>> : h \in 0 .. FloorLog2(dd), u \in {-1, 0, 1}}

\* The batches of at most n entries over a set of entries.
Batches(entries, n) == UNION {[1 .. m -> entries] : m \in 0 .. n}

\* One value of eps of each sign.
EpsValues == {-1, 0, 1}

\* server.collect(t, reports)
Collect(batches) ==
    /\ \E batch \in batches :
         /\ T' = collect(T, batch)
         /\ last' = [NoCall EXCEPT !.op = "collect", !.T0 = T, !.batch = batch,
                                   !.n = last.n + 1]
    /\ UNCHANGED <<d, clients, obs, inst>>

\* aggregate written with reads that insert the keys they miss.
Aggregate_inserts ==
    /\ \E k \in 1 .. 2, eps \in EpsValues :
         last' = [NoCall EXCEPT !.op = "aggregate", !.k = k, !.eps = eps,
                                !.f = aggregate(T, d, k, eps), !.n = last.n]
    /\ T' = [key \in DOMAIN T \cup Cover(T, d, d - 1) |->
                IF key \in DOMAIN T THEN T[key] ELSE 0]
    /\ UNCHANGED <<d, clients, obs, inst>>

\* server.aggregate(k, eps)
Aggregate ==
    /\ \E k \in 1 .. 2, eps \in EpsValues :
         last' = [NoCall EXCEPT !.op = "aggregate", !.k = k, !.eps = eps,
                                !.f = aggregate(T, d, k, eps), !.n = last.n]
    /\ UNCHANGED <<d, clients, obs, T, inst>>

\* A server whose map holds 1 at no node or at one node of the tree.
InitCollect ==
    /\ d \in 1 .. MaxD
    /\ clients = << >>
    /\ obs = << >>
    /\ T \in UNION {[S -> {1}] : S \in {{}} \cup {{key} : key \in TreeNodes(d)}}
    /\ inst = NoInstance
    /\ last = NoCall

\* One call of collect with a batch of one time period.
NextCollect ==
    /\ last.n = 0
    /\ Collect(UNION {Batches(ReportsAt(d, t) \cup {None}, MaxBatch) :
                        t \in 0 .. (d - 1)})

SpecCollect == InitCollect /\ [][NextCollect]_vars

\* A server whose map holds 1 at any set of nodes of the tree.
InitServer ==
    /\ d \in 1 .. MaxHorizon
    /\ clients = << >>
    /\ obs = << >>
    /\ T \in UNION {[S -> {1}] : S \in SUBSET TreeNodes(d)}
    /\ inst = NoInstance
    /\ last = NoCall

\* aggregate at any time, before and after one call of collect with one report.
NextServer ==
    \/ /\ last.n = 0
       /\ Collect(UNION {Batches(ReportsAt(d, t), 1) : t \in 0 .. (d - 1)})
    \/ Aggregate

SpecServer == InitServer /\ [][NextServer]_vars

-----------------------------------------------------------------------------
(* The harness: Instance.__init__ and Instance.run *)

\* The nonzero entries of dx alternate in sign; prev is the last one seen.
RECURSIVE Alternates(_, _)
Alternates(dx, prev) ==
    IF dx = << >> THEN TRUE
    ELSE IF Head(dx) = 0 THEN Alternates(Tail(dx), prev)
         ELSE Head(dx) # prev /\ Alternates(Tail(dx), Head(dx))

\* generate_dx(d, k): k changes at any positions, alternating from -1 or +1.
generate_dx(dd, k) == {dx \in DxSet(dd) : Norm1(dx) = k /\ Alternates(dx, 0)}

\* compute_x, line 46: the 1-based position of the first nonzero entry of dx,
\* 0 when there is none (np.nonzero(dx)[0] is empty and [0] fails).
FirstNonzero(dx) ==
    IF \E n \in DOMAIN dx : dx[n] # 0
    THEN CHOOSE n \in DOMAIN dx :
            dx[n] # 0 /\ \A m \in DOMAIN dx : dx[m] # 0 => n <= m
    ELSE 0

\* compute_x, lines 49-50: x.append(x[i] + dx[i]) for i in range(len(dx)).
RECURSIVE Marginals(_, _, _)
Marginals(x, dx, i) ==
    IF i >= Len(dx) THEN x
    ELSE Marginals(Append(x, x[i + 1] + dx[i + 1]), dx, i + 1)

\* compute_x(dx): the list x, or the IndexError of line 46.
compute_x(dx) ==
    LET first == FirstNonzero(dx) IN
    IF first = 0
    THEN [x |-> None, branch |-> "IndexError"]
    ELSE [x |-> Marginals(<<IntDiv(-dx[first] + 1, 2)>>, dx, 0), branch |-> "none"]

\* Instance.__init__, line 64: dx = generate_dx(d, k), for any k from 0 to d.
GenerateDx ==
    /\ last.op = "init"
    /\ \E k \in 0 .. d :
         \E dx \in generate_dx(d, k) :
            last' = [NoCall EXCEPT !.op = "generate_dx", !.k = k, !.ret = dx]
    /\ UNCHANGED <<d, clients, obs, T, inst>>

\* Instance.__init__, line 65: x = compute_x(dx); batch keeps the argument.
ComputeX ==
    /\ last.op = "generate_dx"
    /\ LET res == compute_x(last.ret) IN
         last' = [NoCall EXCEPT !.op = "compute_x", !.k = last.k,
                                !.batch = last.ret, !.ret = res.x,
                                !.branch = res.branch]
    /\ UNCHANGED <<d, clients, obs, T, inst>>

InitVector ==
    /\ d \in 1 .. MaxHorizon
    /\ clients = << >>
    /\ obs = << >>
    /\ T = << >>
    /\ inst = NoInstance
    /\ last = NoCall

NextVector ==
    \/ GenerateDx
    \/ ComputeX

\* The difference vectors on their own: generated, then reconstructed.
SpecVector == InitVector /\ [][NextVector]_vars

\* Instance(n, d, k, epsilon, hide_zero, choose_level): n clients with
\* generated secrets and a server.  compute_x, which __init__ calls on every
\* dx, fails on a dx without a change, so an Instance has k >= 1.
InitInstance ==
    /\ d \in 1 .. MaxD
    /\ \E n \in 1 .. NClients, k \in 1 .. d, epsilon \in UpdateEps,
          hz \in BOOLEAN, chl \in BOOLEAN :
         /\ inst = [NoInstance EXCEPT !.n = n, !.k = k, !.epsilon = epsilon,
                                      !.hide_zero = hz, !.choose_level = chl,
                                      !.pc = "created"]
         /\ clients \in [1 .. n -> UNION {
                {setup(NewClient(dx, hz, chl), ic, hc) :
                    ic \in ChangeChoices(k), hc \in get_level(chl, d)} :
                dx \in generate_dx(d, k)}]
         /\ obs = [cl \in 1 .. n |-> NewObs]
    /\ T = << >>
    /\ last = NoCall

\* run(collect=True, shuffle), lines 92-100: the flags are set on every client
\* and every client is reset.
StartRun ==
    /\ inst.pc = "created"
    /\ inst' = [inst EXCEPT !.pc = "running", !.t = 0]
    /\ clients' \in [1 .. inst.n -> UNION {
            {setup([dx |-> dx, hide_zero |-> inst.hide_zero,
                    choose_level |-> inst.choose_level,
                    ic |-> 0, hc |-> 0, i |-> 0, c |-> 0, k |-> 0], ic, hc) :
                ic \in ChangeChoices(inst.k), hc \in get_level(inst.choose_level, d)} :
            dx \in {clients[cl].dx : cl \in 1 .. inst.n}}]
    /\ \A cl \in 1 .. inst.n : clients'[cl].dx = clients[cl].dx
    /\ obs' = [cl \in 1 .. inst.n |-> NewObs]
    /\ last' = [NoCall EXCEPT !.op = "reset", !.n = last.n]
    /\ UNCHANGED <<d, T>>

\* run, lines 101-113: one time period.  Every client is asked in the order of
\* indices and the answers are handed to the server.  With shuffle the order
\* is any permutation; without it, it is the identity, which is one of them.
\* The trace of single calls is not kept for the clients of an Instance.
RunEpoch ==
    /\ inst.pc = "running"
    /\ inst.t < d
    /\ \E order \in Perms(inst.n),
          r \in [1 .. inst.n -> NoiseDraws(inst.hide_zero)],
          b \in [1 .. inst.n -> Coin(inst.epsilon)] :
         LET res == [cl \in 1 .. inst.n |-> update(clients[cl], inst.t, r[cl], b[cl])]
             batch == [i \in 1 .. inst.n |-> res[order[i]].ret]
         IN  /\ clients' = [cl \in 1 .. inst.n |-> res[cl].cs]
             /\ obs' = [cl \in 1 .. inst.n |->
                           Observe(obs[cl], inst.t, inst.epsilon,
                                   inst.hide_zero, res[cl])]
             /\ T' = collect(T, batch)
             /\ last' = [NoCall EXCEPT !.op = "collect", !.t = inst.t, !.T0 = T,
                                       !.batch = batch, !.n = last.n + 1]
    /\ inst' = [inst EXCEPT !.t = @ + 1]
    /\ UNCHANGED d

\* run, lines 116-118: the server aggregates with the Instance's k and with
\* server_epsilon, a positive budget, or the Instance's epsilon without one.
FinishRun ==
    /\ inst.pc = "running"
    /\ inst.t = d
    /\ \E eps \in {inst.epsilon} \cup {e \in EpsValues : e > 0} :
         last' = [NoCall EXCEPT !.op = "aggregate", !.k = inst.k, !.eps = eps,
                                !.f = aggregate(T, d, inst.k, eps), !.n = last.n]
    /\ inst' = [inst EXCEPT !.pc = "done"]
    /\ UNCHANGED <<d, clients, obs, T>>

Next ==
    \/ StartRun
    \/ RunEpoch
    \/ FinishRun

Spec == InitInstance /\ [][Next]_vars

-----------------------------------------------------------------------------
(* Properties of one client *)

\* The 0-based step of the n-th (0-based) nonzero entry of dx, or -1.
RECURSIVE NthChange(_, _, _)
NthChange(dx, n, from) ==
    IF from > Len(dx) THEN -1
    ELSE IF dx[from] # 0
         THEN IF n = 0 THEN from - 1 ELSE NthChange(dx, n - 1, from + 1)
         ELSE NthChange(dx, n, from + 1)

\* The lifecycle of client 1 so far was update(0), update(1), ..., update(last.t).
InOrder == last.op = "update" /\ obs[1].seq = last.t + 1

\* C1: within one lifecycle at most one report is computed from the captured
\* change c; once it has been made c is 0, and a report that is not computed
\* from c is a draw from {-1,+1} when hide_zero is set and 0 otherwise.
C1_AtMostOneDisclosure ==
    /\ obs[1].ndisc <= 1
    /\ obs[1].ndisc = 1 => clients[1].c = 0
    /\ (last.op = "update" /\ last.ret # None /\ last.branch # "disclose")
         => last.ret[3] \in (IF last.hz THEN {-1, 1} ELSE {0})

\* A report made after the disclosure of the same lifecycle.
C1_Witness ==
    /\ obs[1].ndisc = 1
    /\ last.op = "update" /\ last.ret # None /\ last.branch # "disclose"
    /\ clients[1].k >= 2

\* C2: a call returns a report exactly when (t+1) mod 2^h* = 0, the report is
\* (h*, t, u) with the t of the call, and an in-order run over the whole
\* horizon returns exactly floor(d / 2^h*) reports.
C2_ReportingFrequency ==
    /\ last.op = "update" =>
          /\ (last.ret # None) <=> ((last.t + 1) % Pow2(clients[1].hc) = 0)
          /\ last.ret # None =>
                /\ Len(last.ret) = 3
                /\ last.ret[1] = clients[1].hc
                /\ last.ret[2] = last.t
    /\ obs[1].seq = d => obs[1].nrep = d \div Pow2(clients[1].hc)

\* A whole in-order run at level 1 over a horizon of 3: one report, at t = 1,
\* and none at the last step.
C2_Witness ==
    /\ obs[1].seq = d /\ d = 3
    /\ clients[1].hc = 1 /\ obs[1].nrep = 1
    /\ last.t = 2 /\ last.ret = None

\* C3: for every horizon d, a power of two or not, the sampled level
\* satisfies 0 <= h* <= floor(log2 d).
C3_LevelBound ==
    /\ clients[1].hc >= 0
    /\ clients[1].hc <= FloorLog2(d)

\* The case C4 is about: an in-order call at level 0 with hide_zero off and
\* the coin, if it was tossed, +1.
HonestCall ==
    /\ InOrder
    /\ clients[1].hc = 0
    /\ ~last.hz
    /\ last.coin # -1

\* C4 as stated: every honest call returns (0, t, dx[t]).
C4_HonestReportsDx ==
    HonestCall => last.ret = <<0, last.t, clients[1].dx[last.t + 1]>>

\* C4 as amended: an honest call returns (0, t, dx[t]) at the step of the
\* i*-th change and (0, t, 0) at every other step; this is (0, t, dx[t]) at
\* every step when dx has at most one nonzero entry.
C4_HonestReportsDesignated ==
    /\ HonestCall =>
          last.ret = <<0, last.t,
                       IF last.t = NthChange(clients[1].dx, clients[1].ic, 1)
                       THEN clients[1].dx[last.t + 1] ELSE 0>>
    /\ (HonestCall /\ clients[1].k <= 1) =>
          last.ret = <<0, last.t, clients[1].dx[last.t + 1]>>

\* An honest run has reported its designated change, the second of two.
C4_Witness ==
    /\ HonestCall
    /\ clients[1].k = 2 /\ clients[1].ic = 1
    /\ last.t = NthChange(clients[1].dx, 1, 1)
    /\ last.ret[3] # 0

\* C5: an in-order run over the whole horizon of a client with k >= 1 has
\* returned exactly one report computed from a captured change.
C5_ExactlyOneDisclosure ==
    (obs[1].seq = d /\ clients[1].k >= 1) => obs[1].ndisc = 1

\* The in-order run tr, a sequence of calls with their eps, hide_zero and
\* result, is one the client cs can make from step t on.
RECURSIVE CanEmit(_, _, _)
CanEmit(cs, tr, t) ==
    IF t >= Len(tr) THEN TRUE
    ELSE LET e == tr[t + 1] IN
         \E r \in NoiseDraws(e.hz), b \in Coin(e.eps) :
            LET res == update([cs EXCEPT !.hide_zero = e.hz], t, r, b) IN
            res.ret = e.ret /\ CanEmit(res.cs, tr, t + 1)

\* A fresh client with the secret dx2 and the level hc can make the run tr.
CouldBeFrom(dx2, hc, tr) ==
    \E ic2 \in ChangeChoices(Norm1(dx2)) :
        CanEmit(setup(NewClient(dx2, TRUE, TRUE), ic2, hc), tr, 0)

\* The lifecycle of client 1 so far was update(0), update(1), ..., every call
\* made with hide_zero set.
HiddenRun ==
    /\ obs[1].seq >= 1
    /\ \A n \in DOMAIN obs[1].trace : obs[1].trace[n].hz

\* The steps of a hidden run that returned a report are the milestones of h*,
\* and every value returned is -1 or +1.
HiddenShape ==
    \A n \in DOMAIN obs[1].trace :
        LET ret == obs[1].trace[n].ret IN
        /\ (ret # None) <=> ((n % Pow2(clients[1].hc)) = 0)
        /\ ret # None => ret[3] \in {-1, 1}

\* C11 as stated: with hide_zero set, whatever eps the calls were made with,
\* the reports of an in-order run are returned at steps that depend only on
\* h*, their values are in {-1,+1}, and the run is one that a client with any
\* other secret dx2 of the same length and the same h* can make as well.
C11_SecretIndependent ==
    HiddenRun =>
        /\ HiddenShape
        /\ \A dx2 \in DxSet(d) : CouldBeFrom(dx2, clients[1].hc, obs[1].trace)

\* C11 as amended: the steps and the range of the values are as stated for
\* every eps; the run can be made under every other secret when every call
\* was made with an eps at which the coin can fall both ways (eps < 74).
C11_SecretIndependentFairCoin ==
    HiddenRun =>
        /\ HiddenShape
        /\ (\A n \in DOMAIN obs[1].trace : obs[1].trace[n].eps < CoinSureAt)
              => \A dx2 \in DxSet(d) :
                    CouldBeFrom(dx2, clients[1].hc, obs[1].trace)

\* A whole hidden run over a horizon of 3 at level 0, with a fair coin, of a
\* client with two changes that disclosed one of them.
C11_Witness ==
    /\ HiddenRun /\ obs[1].seq = d /\ d = 3
    /\ \A n \in DOMAIN obs[1].trace : obs[1].trace[n].eps < CoinSureAt
    /\ clients[1].hc = 0 /\ clients[1].k = 2
    /\ obs[1].ndisc = 1

\* C17: reset() in any state of the client, one with a change captured and
\* not yet disclosed and one after the disclosure among them, leaves dx and k
\* as they are, zeroes i and c, draws i* from 0 .. k-1 (0 when k = 0) and draws
\* h* anew; the change a lifecycle discloses is one it captured itself, the
\* designated change of its own i*, and it discloses at most one.
C17_ResetStartsFresh ==
    /\ [][last'.op = "reset" =>
            /\ clients'[1].dx = clients[1].dx
            /\ clients'[1].k = clients[1].k
            /\ clients'[1].i = 0
            /\ clients'[1].c = 0
            /\ clients'[1].ic \in (IF clients[1].k > 0
                                     THEN 0 .. (clients[1].k - 1) ELSE {0})
            /\ clients'[1].hc \in get_level(clients[1].choose_level, d)
            /\ obs'[1].ndisc = 0
         ]_vars
    /\ [](/\ obs[1].ndisc <= 1
          /\ (InOrder /\ last.branch = "disclose") =>
                LET s == NthChange(clients[1].dx, clients[1].ic, 1) IN
                /\ 0 <= s /\ s <= last.t
                /\ last.ret[3] = last.coin * clients[1].dx[s + 1])

\* A lifecycle that reset ended with a change captured and not disclosed is
\* followed by one that discloses its own designated change, of the other sign.
C17_Witness ==
    /\ obs[1].prev = "captured"
    /\ InOrder /\ last.branch = "disclose"
    /\ clients[1].k = 2 /\ clients[1].ic = 1
    /\ clients[1].dx[1] # 0
    /\ clients[1].dx[1] # clients[1].dx[NthChange(clients[1].dx, 1, 1) + 1]

\* C18: hide_zero(flag), set_choose_level(flag) and update(t, eps) leave h* and
\* i* as they are, and the setters leave i, c and dx as they are too; only
\* reset changes h* and i*, and every report carries the h* of its lifecycle.
C18_LevelFixedInLifecycle ==
    /\ [][/\ (clients'[1].hc # clients[1].hc \/ clients'[1].ic # clients[1].ic)
              => (last'.op = "reset" /\ last.op # "reset")
          /\ (clients'[1].hide_zero # clients[1].hide_zero
                \/ clients'[1].choose_level # clients[1].choose_level)
              => (/\ clients'[1].hc = clients[1].hc
                  /\ clients'[1].ic = clients[1].ic
                  /\ clients'[1].i = clients[1].i
                  /\ clients'[1].c = clients[1].c
                  /\ clients'[1].dx = clients[1].dx
                  /\ clients'[1].k = clients[1].k)
         ]_vars
    /\ []((last.op = "update" /\ last.ret # None) => last.ret[1] = clients[1].hc)

\* A report at level 1 of a client whose choose_level was switched off after
\* the level had been drawn, and whose hide_zero was switched since the call.
C18_Witness ==
    /\ last.op = "update" /\ last.ret # None
    /\ last.ret[1] = 1
    /\ ~clients[1].choose_level
    /\ clients[1].hide_zero # last.hz

\* C13: update(t, eps) ends in an error and leaves the client as it was
\* whenever t is outside [0, d) or is not greater than the t of the previous
\* update call of the lifecycle; such a call returns no report and advances
\* no counter.
C13_InvalidStepsSurfaced ==
    [][(/\ last'.op = "update"
        /\ \/ last'.t < 0
           \/ last'.t >= d
           \/ (last.op = "update" /\ last'.t <= last.t))
       => (/\ last'.branch = "IndexError"
           /\ last'.ret = None
           /\ clients' = clients)
      ]_vars

\* The list x has d + 1 values, all 0 or 1, whose differences are dx.
Reconstructs(x, dx) ==
    /\ Len(x) = Len(dx) + 1
    /\ \A n \in DOMAIN x : x[n] \in {0, 1}
    /\ \A t \in 0 .. (Len(dx) - 1) : x[t + 2] - x[t + 1] = dx[t + 1]

\* C14: for every d >= 1, every k from 0 to d and every generated dx (k
\* nonzero entries alternating in sign), compute_x(dx) returns d + 1 values,
\* all in {0,1}, with x[t+1] - x[t] = dx[t] for every t.
C14_ReconstructionRoundTrip ==
    last.op = "compute_x" => Reconstructs(last.ret, last.batch)

-----------------------------------------------------------------------------
(* Properties of the server *)

\* ceil(x / y) for x >= 0 and y > 0.
CeilDiv(x, y) == (x + y - 1) \div y

\* C6: collect adds the u of a report (h, t, u) to T[(h+1, ceil((t+1)/2^h))],
\* an absent entry starting at 0, and changes no other entry (stated for a
\* batch of one report).
C6_NodeKeyCeil ==
    (last.op = "collect" /\ Len(last.batch) = 1 /\ last.batch[1] # None) =>
        LET r   == last.batch[1]
            key == <<r[1] + 1, CeilDiv(r[2] + 1, Pow2(r[1]))>>
            old == IF key \in DOMAIN last.T0 THEN last.T0[key] ELSE 0
        IN  /\ DOMAIN T = DOMAIN last.T0 \cup {key}
            /\ T[key] = old + r[3]
            /\ \A other \in DOMAIN last.T0 \ {key} : T[other] = last.T0[other]

\* C7: every key (L, j) of T has 1 <= L <= floor(log2 d) + 1 and
\* 1 <= j <= floor(d / 2^(L-1)), after any number of time periods in which
\* collect received what the clients' update(t, eps) returned.
C7_KeyRange ==
    \A key \in DOMAIN T :
        /\ 1 <= key[1] /\ key[1] <= FloorLog2(d) + 1
        /\ 1 <= key[2] /\ key[2] <= d \div Pow2(key[1] - 1)

\* A run over a horizon of 3 has ended; one client held the level 2, which
\* tree_depth_list(3) offers, and another one's report reached the node (2, 1).
C7_Witness ==
    /\ inst.pc = "done" /\ d = 3
    /\ \E cl \in DOMAIN clients : clients[cl].hc = 2
    /\ <<2, 1>> \in DOMAIN T

\* Every leaf (1, 1) .. (1, d) is a key of T.
DenseLeaves == \A i \in 0 .. (d - 1) : <<1, i + 1>> \in DOMAIN T

\* The sum of the leaves 0 .. t.
RECURSIVE LeafPrefix(_, _)
LeafPrefix(Tm, t) == IF t < 0 THEN 0 ELSE Tm[<<1, t + 1>>] + LeafPrefix(Tm, t - 1)

\* aggregate(1, eps) with eps > 0 returned the scaled prefix sums of the leaves.
IsLeafPrefix ==
    /\ DOMAIN last.f = 1 .. d
    /\ \A t \in 0 .. (d - 1) :
          /\ last.f[t + 1].a = ScaleFactor(1, d, last.eps)
          /\ last.f[t + 1].sum = LeafPrefix(T, t)

AggregatedDense ==
    last.op = "aggregate" /\ last.k = 1 /\ last.eps > 0 /\ DenseLeaves

\* C8 as stated: with every leaf present, whatever other keys T holds,
\* aggregate(1, eps)[t] is a times the sum of the leaves 0 .. t.
C8_DensePrefixAnyKeys == AggregatedDense => IsLeafPrefix

\* C8 as amended: with every leaf present and no key of level 2 in T
\* (whatever keys of level 3 and above T holds), aggregate(1, eps)[t] is a
\* times the sum of the leaves 0 .. t.
C8_DensePrefixNoParents ==
    (AggregatedDense /\ \A key \in DOMAIN T : key[1] # 2) => IsLeafPrefix

\* aggregate over four dense leaves, one of them not 1, with the root of the
\* tree in T and no node of level 2.
C8_Witness ==
    /\ AggregatedDense /\ d = 4
    /\ <<3, 1>> \in DOMAIN T
    /\ \A key \in DOMAIN T : key[1] # 2
    /\ T[<<1, 2>>] = 2
    /\ last.f[4].sum = 5

\* C9: aggregate leaves T and d as they are and returns a list of length d,
\* T changes only in collect, and two consecutive calls of aggregate with the
\* same arguments return the same list.
C9_AggregateReadOnly ==
    [][/\ last'.op = "aggregate" => (T' = T /\ d' = d /\ DOMAIN last'.f = 1 .. d)
       /\ T' # T => last'.op = "collect"
       /\ (last.op = "aggregate" /\ last'.op = "aggregate"
             /\ last'.k = last.k /\ last'.eps = last.eps) => last'.f = last.f
      ]_vars

\* aggregate was called after a collect, on a map that lacks a leaf it reads.
C9_Witness ==
    /\ last.op = "aggregate" /\ last.n = 1
    /\ T # << >>
    /\ ~DenseLeaves

\* C12: aggregate(k, eps) called with eps <= 0 ends in an error and returns
\* no list of estimates, whatever T holds.
C12_DegenerateBudgetRejected ==
    (last.op = "aggregate" /\ last.eps <= 0) => last.f = None

\* The entries of a batch that are reports.
RECURSIVE DropNone(_)
DropNone(batch) ==
    IF batch = << >> THEN << >>
    ELSE IF Head(batch) = None THEN DropNone(Tail(batch))
         ELSE <<Head(batch)>> \o DropNone(Tail(batch))

\* C10: the map after collect is the same for every order of the batch, and
\* the None entries of the batch contribute nothing.
C10_OrderIndependent ==
    last.op = "collect" =>
        /\ \A p \in Perms(Len(last.batch)) :
              collect(last.T0, [i \in 1 .. Len(last.batch) |-> last.batch[p[i]]]) = T
        /\ collect(last.T0, DropNone(last.batch)) = T

\* A batch of three: a None and two different reports that land on the node
\* the map already holds.
C10_Witness ==
    /\ last.op = "collect" /\ Len(last.batch) = 3
    /\ last.batch[1] = None /\ last.batch[2] # None /\ last.batch[3] # None
    /\ last.batch[2][3] # last.batch[3][3]
    /\ NodeKey(last.batch[2][1], last.batch[2][2]) \in DOMAIN last.T0
    /\ NodeKey(last.batch[2][1], last.batch[2][2])
         = NodeKey(last.batch[3][1], last.batch[3][2])

\* The set C before the fold and after each of its steps, from level h and
\* index i on.
RECURSIVE FoldStates(_, _, _, _, _)
FoldStates(C, Tm, h, i, dd) ==
    IF h \notin tree_depth_list(dd) THEN {C}
    ELSE IF i >= dd THEN FoldStates(C, Tm, h + 1, 0, dd)
         ELSE {C} \cup FoldStates(FoldStep(C, Tm, h, i), Tm, h, i + 1, dd)

\* The time steps the node (L, j) covers.
TimeRange(key) ==
    ((key[2] - 1) * Pow2(key[1] - 1)) .. (key[2] * Pow2(key[1] - 1) - 1)

\* The nodes of C cover every step of 0 .. t once and no other step.
IsExactCover(C, t) ==
    /\ \A key1 \in C, key2 \in C :
          key1 # key2 => TimeRange(key1) \cap TimeRange(key2) = {}
    /\ UNION {TimeRange(key) : key \in C} = 0 .. t

\* C16: for every t and every T, before the fold, after each of its steps and
\* at its end (the set aggregate sums over), the time ranges of the nodes of
\* C are pairwise disjoint, their union is exactly 0 .. t, and every node of C
\* above the leaves is a key of T.
C16_CoverInvariant ==
    \A t \in 0 .. (d - 1) :
        /\ Cover(T, d, t) \in FoldStates(Leaves(t), T, 0, 0, d)
        /\ \A C \in FoldStates(Leaves(t), T, 0, 0, d) \cup {Cover(T, d, t)} :
              /\ IsExactCover(C, t)
              /\ \A key \in C : key[1] > 1 => key \in DOMAIN T

\* aggregate ran on a map over a horizon of 4 in which the fold goes up two
\* levels for the last time period, while a leaf of the third is missing.
C16_Witness ==
    /\ last.op = "aggregate" /\ d = 4
    /\ Cover(T, d, 3) = {<<3, 1>>}
    /\ Cover(T, d, 2) = {<<2, 1>>, <<1, 3>>}
    /\ <<1, 3>> \notin DOMAIN T

\* C19: when a client driven in order captures its designated change at step
\* s and discloses it in the report (h*, t', u), t' is the first step >= s
\* with (t'+1) mod 2^h* = 0, and collect adds u to the node
\* (h*+1, (t'+1)/2^h*), which covers s: t' + 1 - 2^h* <= s <= t'.
C19_DisclosureInCoveringNode ==
    (InOrder /\ last.branch = "disclose") =>
        LET s   == NthChange(clients[1].dx, clients[1].ic, 1)
            h   == last.ret[1]
            t1  == last.ret[2]
            key == <<h + 1, (t1 + 1) \div Pow2(h)>>
            Tm  == collect(<< >>, <<last.ret>>)
        IN  /\ h = clients[1].hc /\ t1 = last.t
            /\ 0 <= s /\ s <= t1
            /\ (t1 + 1) % Pow2(h) = 0
            /\ \A t \in s .. (t1 - 1) : (t + 1) % Pow2(h) # 0
            /\ t1 + 1 - Pow2(h) <= s
            /\ DOMAIN Tm = {key} /\ Tm[key] = last.ret[3]
            /\ s \in TimeRange(key)

\* A change captured at step 0 and disclosed at step 1, at level 1, in a
\* horizon of 3.
C19_Witness ==
    /\ InOrder /\ last.branch = "disclose" /\ d = 3
    /\ clients[1].hc = 1 /\ last.t = 1
    /\ NthChange(clients[1].dx, clients[1].ic, 1) = 0

-----------------------------------------------------------------------------
(* Properties of a whole run *)

\* f_true[t] of the Instance: the sum of dx[0..t] over all clients.
RECURSIVE PrefixSum(_, _)
PrefixSum(dx, t) == IF t < 0 THEN 0 ELSE dx[t + 1] + PrefixSum(dx, t - 1)

TrueSum(t) == SetSum(DOMAIN clients, [cl \in DOMAIN clients |-> PrefixSum(clients[cl].dx, t)])

\* The map T after the d time periods of a run in which every noise draw is
\* replaced by its mean 0 and every coin by +1.
RECURSIVE MeanRun(_, _, _)
MeanRun(cls, t, Tm) ==
    IF t >= d THEN Tm
    ELSE LET res == [cl \in DOMAIN cls |-> update(cls[cl], t, 0, 1)] IN
         MeanRun([cl \in DOMAIN cls |-> res[cl].cs], t + 1,
                 collect(Tm, [cl \in DOMAIN cls |-> res[cl].ret]))

\* The draws of (h*, i*) the clients of the Instance make in reset, all
\* equally likely.
SetupChoices ==
    [DOMAIN clients -> get_level(inst.choose_level, d) \X ChangeChoices(inst.k)]

\* The cover sum for time period t of the mean run under the draws ch.
MeanCoverSum(ch, t) ==
    LET Tm == MeanRun([cl \in DOMAIN clients |->
                          setup(clients[cl], ch[cl][2], ch[cl][1])], 0, << >>)
    IN  CoverSum(Cover(Tm, d, t), Tm)

\* C15: the expected value of aggregate(k, eps)[t] over h*, i*, the noise and
\* the coins is the true cumulative change sum, for every t.  The estimate
\* a * sum(T[c]) is linear in every draw of u and b, and the nodes of C depend
\* on none of them, so for given h*, i* its expected value is a * E[b] =
\* k * log2(d) times the cover sum of the mean run; log2(d) is a whole number
\* for d a power of two and irrational otherwise.
C15_Unbiased ==
    inst.pc = "created" =>
        \A t \in 0 .. (d - 1) :
            LET total == SetSum(SetupChoices,
                                [ch \in SetupChoices |-> MeanCoverSum(ch, t)])
                N     == Cardinality(SetupChoices)
            IN  IF IsPow2(d)
                THEN inst.k * FloorLog2(d) * total = N * TrueSum(t)
                ELSE total = 0 /\ TrueSum(t) = 0

\* A finished run of clients with hide_zero and choose_level off under an
\* epsilon at which the coin is always +1.
NoiseFree ==
    /\ inst.pc = "done"
    /\ ~inst.hide_zero /\ ~inst.choose_level
    /\ Coin(inst.epsilon) = {1}

\* The designated change of client cl if it occurred at a step <= t, else 0.
DesignatedUpTo(cl, t) ==
    LET s == NthChange(clients[cl].dx, clients[cl].ic, 1) IN
    IF 0 <= s /\ s <= t THEN clients[cl].dx[s + 1] ELSE 0

\* C20: after a noise-free run over t = 0..d-1, T holds only leaf keys and for
\* every t the cover sum that aggregate computed (its estimate without the
\* scale a) is the sum over the clients of their designated change if it
\* occurred at a step <= t; with k = 1 this is the true cumulative change sum.
C20_NoiseFreePlumbing ==
    NoiseFree =>
        /\ \A key \in DOMAIN T : key[1] = 1
        /\ \A t \in 0 .. (d - 1) :
              /\ last.f[t + 1].sum =
                    SetSum(DOMAIN clients,
                           [cl \in DOMAIN clients |-> DesignatedUpTo(cl, t)])
              /\ inst.k = 1 => last.f[t + 1].sum = TrueSum(t)

\* A noise-free run of two clients with two changes each over a horizon of 3,
\* whose designated changes are both +1 and were reported at the same step.
C20_Witness ==
    /\ NoiseFree /\ d = 3 /\ inst.n = 2 /\ inst.k = 2
    /\ \E key \in DOMAIN T : T[key] = 2
    /\ last.f[1].sum = 0
    /\ last.f[3].sum = 2

=============================================================================
